---- MODULE Spec2Model ----
(***************************************************************************)
(* Model of the in-toto layout signing scripts of pv_example:              *)
(*   scripts/generate-intoto-key.py   generate_key_pair, main              *)
(*   scripts/update-layout-keys.py    update_layout_keys  (bindKey)        *)
(*   scripts/sign-layout.py           sign_layout         (sign)           *)
(* Four specifications share the variables below:                          *)
(*   SpecGen   one generate_key_pair invocation after another              *)
(*   SpecConc  concurrent generate_key_pair invocations on the same paths  *)
(*   SpecPath  the path derivation of the two main() / update functions    *)
(*   Spec      update_layout_keys and sign_layout on one layout file       *)
(***************************************************************************)
EXTENDS Integers, Sequences, FiniteSets, TLC

VARIABLES
    \* ---- key generation (generate-intoto-key.py) ----
    fs,          \* the two target paths: [priv |-> file, pub |-> file]
    pc,          \* position of each invocation inside generate_key_pair
    genkey,      \* the key pair each invocation generated
    ksize,       \* the key_size argument of each invocation
    result,      \* how each invocation ended
    fs0,         \* the filesystem as it was when the invocation was called
    ncalls,      \* number of invocations started so far
    callid,      \* which invocation (1, 2, ...) each process is running
    clobbered,   \* an invocation overwrote or unlinked a file written by another
    \* ---- path derivation ----
    base,              \* args.key of generate-intoto-key.py
    private_key_path,  \* path the private key is written to
    public_key_path,   \* path the public key is written to
    derived,           \* private_key_path as update_layout_keys derives it
    ppc,               \* position in the path scenario
    \* ---- layout file (update-layout-keys.py, sign-layout.py) ----
    layout,      \* parsed JSON content of the layout file
    keyfiles,    \* key files on disk, per slot: [pub |-> key, priv |-> key, or 0 if absent]
    prev,        \* content of the layout file before the last operation
    hist         \* the operations run so far, each [op, slot, ok]

genVars == <<fs, pc, genkey, ksize, result, fs0, ncalls, callid, clobbered>>
pathVars == <<base, private_key_path, public_key_path, derived, ppc>>
layoutVars == <<layout, keyfiles, prev, hist>>
vars == <<genVars, pathVars, layoutVars>>

(***************************************************************************)
(* Bounds of the model                                                     *)
(***************************************************************************)
NumProcs == 2   \* concurrent generate_key_pair invocations
MaxCalls == 3   \* sequential generate_key_pair invocations
MaxLen == 4     \* length of a base name, in characters
MaxOps == 3     \* operations run on the layout file
NumKeys == 2    \* key pairs (and key file slots) in the layout scenario

(***************************************************************************)
(* generate-intoto-key.py                                                  *)
(***************************************************************************)
Mode600 == 384   \* 0o600
Mode644 == 420   \* 0o644
KeySizes == {2048, 3072, 4096}
\* mode of a file created by write_bytes: 0o666 masked by the caller's umask
CreateModes == {Mode644, Mode600, 436}

Procs == 1..NumProcs
NoFile == [data |-> "none"]
NoKey == [id |-> 0, bits |-> 0]
Exists(f) == f.data # "none"

\* a key file left by an earlier run of the tool
OldKey == [id |-> 0, bits |-> 2048]
OldFiles(half) ==
    {NoFile} \cup {[data |-> half, key |-> OldKey, mode |-> m] : m \in {Mode600, Mode644}}

KeysAlreadyExistAnd(f) == Exists(f.priv) /\ Exists(f.pub)
\* line 32: private_key_path.exists() or public_key_path.exists()
KeysAlreadyExist(f) == Exists(f.priv) \/ Exists(f.pub)

UnlinkPublicOnly(f) == [f EXCEPT !.pub = NoFile]
\* lines 78-79: unlink(missing_ok=True) on both paths
UnlinkBoth(f) == [f EXCEPT !.priv = NoFile, !.pub = NoFile]

\* the file at `path` holds something another invocation wrote
OthersFile(p, path) == Exists(fs[path]) /\ fs[path].key # genkey[p]

\* generate_key_pair(private_key_path, public_key_path, key_size) is entered
Call(p, size) ==
    /\ pc[p] \in {"idle", "done"}
    /\ ncalls < MaxCalls
    /\ pc' = [pc EXCEPT ![p] = "check"]
    /\ ksize' = [ksize EXCEPT ![p] = size]
    /\ genkey' = [genkey EXCEPT ![p] = NoKey]
    /\ result' = [result EXCEPT ![p] = "none"]
    /\ fs0' = [fs0 EXCEPT ![p] = fs]
    /\ ncalls' = ncalls + 1
    /\ callid' = [callid EXCEPT ![p] = ncalls + 1]
    /\ UNCHANGED <<fs, clobbered, pathVars, layoutVars>>

\* lines 31-38: refuse to run when a target exists
CheckExists(p) ==
    /\ pc[p] = "check"
    /\ KeysAlreadyExist(fs)
    /\ pc' = [pc EXCEPT ![p] = "done"]
    /\ result' = [result EXCEPT ![p] = "AlreadyExists"]
    /\ UNCHANGED <<fs, genkey, ksize, fs0, ncalls, callid, clobbered, pathVars, layoutVars>>

\* lines 40-64: generate and serialize the key pair (every invocation gets a
\* fresh key, named after the invocation); generation may raise
Generate(p) ==
    /\ pc[p] = "check"
    /\ ~KeysAlreadyExist(fs)
    /\ \/ /\ genkey' = [genkey EXCEPT ![p] = [id |-> callid[p], bits |-> ksize[p]]]
          /\ pc' = [pc EXCEPT ![p] = "write_priv"]
          /\ UNCHANGED result
       \/ /\ pc' = [pc EXCEPT ![p] = "done"]
          /\ result' = [result EXCEPT ![p] = "GenError"]
          /\ UNCHANGED genkey
    /\ UNCHANGED <<fs, ksize, fs0, ncalls, callid, clobbered, pathVars, layoutVars>>

\* write_bytes(path, data): opens with "wb" (creating or truncating), writes.
\* It either succeeds, fails before the file is opened, or fails after it.
WriteBytes(p, path, half, okpc) ==
    \/ \E m \in CreateModes :
          /\ fs' = [fs EXCEPT ![path] =
                      [data |-> half, key |-> genkey[p],
                       mode |-> IF Exists(fs[path]) THEN fs[path].mode ELSE m]]
          /\ pc' = [pc EXCEPT ![p] = okpc]
          /\ clobbered' = (clobbered \/ OthersFile(p, path))
    \/ /\ pc' = [pc EXCEPT ![p] = "cleanup"]
       /\ UNCHANGED <<fs, clobbered>>
    \/ \E m \in CreateModes :
          /\ fs' = [fs EXCEPT ![path] =
                      [data |-> "partial", key |-> genkey[p],
                       mode |-> IF Exists(fs[path]) THEN fs[path].mode ELSE m]]
          /\ pc' = [pc EXCEPT ![p] = "cleanup"]
          /\ clobbered' = (clobbered \/ OthersFile(p, path))

\* path.chmod(mode): succeeds, or raises (also when the file is gone)
Chmod(p, path, mode, okpc) ==
    \/ /\ Exists(fs[path])
       /\ fs' = [fs EXCEPT ![path].mode = mode]
       /\ pc' = [pc EXCEPT ![p] = okpc]
    \/ /\ pc' = [pc EXCEPT ![p] = "cleanup"]
       /\ UNCHANGED fs

\* line 68
WritePrivate(p) ==
    /\ pc[p] = "write_priv"
    /\ WriteBytes(p, "priv", "private", "chmod_priv")
    /\ UNCHANGED <<genkey, ksize, result, fs0, ncalls, callid, pathVars, layoutVars>>

\* line 69
ChmodPrivate(p) ==
    /\ pc[p] = "chmod_priv"
    /\ Chmod(p, "priv", Mode600, "write_pub")
    /\ UNCHANGED <<genkey, ksize, result, fs0, ncalls, callid, clobbered, pathVars, layoutVars>>

\* line 72
WritePublic(p) ==
    /\ pc[p] = "write_pub"
    /\ WriteBytes(p, "pub", "public", "chmod_pub")
    /\ UNCHANGED <<genkey, ksize, result, fs0, ncalls, callid, pathVars, layoutVars>>

\* line 73
ChmodPublic(p) ==
    /\ pc[p] = "chmod_pub"
    /\ Chmod(p, "pub", Mode644, "success")
    /\ UNCHANGED <<genkey, ksize, result, fs0, ncalls, callid, clobbered, pathVars, layoutVars>>

\* line 74 and the return: the invocation ends successfully
Succeed(p) ==
    /\ pc[p] = "success"
    /\ pc' = [pc EXCEPT ![p] = "done"]
    /\ result' = [result EXCEPT ![p] = "ok"]
    /\ UNCHANGED <<fs, genkey, ksize, fs0, ncalls, callid, clobbered, pathVars, layoutVars>>

\* lines 75-80: the except branch unlinks both targets and exits 1
Cleanup(p) ==
    /\ pc[p] = "cleanup"
    /\ fs' = UnlinkBoth(fs)
    /\ clobbered' = (clobbered \/ OthersFile(p, "priv") \/ OthersFile(p, "pub"))
    /\ pc' = [pc EXCEPT ![p] = "done"]
    /\ result' = [result EXCEPT ![p] = "WriteError"]
    /\ UNCHANGED <<genkey, ksize, fs0, ncalls, callid, pathVars, layoutVars>>

PathIdle ==
    /\ base = <<>>
    /\ private_key_path = <<>>
    /\ public_key_path = <<>>
    /\ derived = <<>>
    /\ ppc = "off"

LayoutIdle ==
    /\ layout = [x |-> 0]
    /\ keyfiles = <<>>
    /\ prev = [x |-> 0]
    /\ hist = <<>>

GenIdle ==
    /\ fs = [priv |-> NoFile, pub |-> NoFile]
    /\ pc = [p \in Procs |-> "idle"]
    /\ genkey = [p \in Procs |-> NoKey]
    /\ ksize = [p \in Procs |-> 0]
    /\ result = [p \in Procs |-> "none"]
    /\ fs0 = [p \in Procs |-> [priv |-> NoFile, pub |-> NoFile]]
    /\ ncalls = 0
    /\ callid = [p \in Procs |-> 0]
    /\ clobbered = FALSE

\* ---- SpecGen: invocations run one after another, on any existing files ----
InitGen ==
    /\ fs \in [priv : OldFiles("private"), pub : OldFiles("public")]
    /\ pc = [p \in Procs |-> "idle"]
    /\ genkey = [p \in Procs |-> NoKey]
    /\ ksize = [p \in Procs |-> 0]
    /\ result = [p \in Procs |-> "none"]
    /\ fs0 = [p \in Procs |-> [priv |-> NoFile, pub |-> NoFile]]
    /\ ncalls = 0
    /\ callid = [p \in Procs |-> 0]
    /\ clobbered = FALSE
    /\ PathIdle
    /\ LayoutIdle

CallSeq ==
    /\ \A q \in Procs : pc[q] \in {"idle", "done"}
    /\ \E size \in KeySizes : Call(1, size)

NextGen ==
    \/ CallSeq
    \/ CheckExists(1)
    \/ Generate(1)
    \/ WritePrivate(1)
    \/ ChmodPrivate(1)
    \/ WritePublic(1)
    \/ ChmodPublic(1)
    \/ Succeed(1)
    \/ Cleanup(1)

SpecGen == InitGen /\ [][NextGen]_vars

\* ---- SpecConc: every process invokes generate_key_pair once, same paths ----
InitConc == GenIdle /\ PathIdle /\ LayoutIdle

CallConc(p) ==
    /\ pc[p] = "idle"
    /\ \E size \in KeySizes : Call(p, size)

NextConc ==
    \E p \in Procs :
        \/ CallConc(p)
        \/ CheckExists(p)
        \/ Generate(p)
        \/ WritePrivate(p)
        \/ ChmodPrivate(p)
        \/ WritePublic(p)
        \/ ChmodPublic(p)
        \/ Succeed(p)
        \/ Cleanup(p)

SpecConc == InitConc /\ [][NextConc]_vars

(***************************************************************************)
(* Claims about generate_key_pair                                          *)
(***************************************************************************)
NoTargets(f) == ~Exists(f.priv) /\ ~Exists(f.pub)

\* both files hold the halves of one key pair, with the modes of lines 69, 73
CompletePair(f) ==
    /\ Exists(f.priv) /\ Exists(f.pub)
    /\ f.priv.data = "private" /\ f.pub.data = "public"
    /\ f.priv.key = f.pub.key
    /\ f.priv.mode = Mode600 /\ f.pub.mode = Mode644

\* C4: when the private or the public target exists at the call, the call
\* ends with AlreadyExists and at no point of the call does the filesystem
\* differ from what it was at the call (nothing created, modified, deleted).
C4_NoOverwrite ==
    (pc[1] # "idle" /\ (Exists(fs0[1].priv) \/ Exists(fs0[1].pub)))
        => /\ fs = fs0[1]
           /\ pc[1] \in {"check", "done"}
           /\ (pc[1] = "done" => result[1] = "AlreadyExists")

\* C4 witness: a call ended AlreadyExists with only the private target there
C4_Witness ==
    /\ pc[1] = "done" /\ result[1] = "AlreadyExists"
    /\ Exists(fs0[1].priv) /\ ~Exists(fs0[1].pub)
    /\ ~Exists(fs.pub)

\* C5: a call that started with neither target present ends with a complete
\* key pair (modes 0600 and 0644) when it succeeds, and with neither file
\* when key generation or any of the four write steps failed.
C5_AllOrNothing ==
    (pc[1] = "done" /\ NoTargets(fs0[1]))
        => /\ (result[1] = "ok" => CompletePair(fs))
           /\ (result[1] # "ok" => NoTargets(fs))
           /\ result[1] \in {"ok", "GenError", "WriteError"}

\* C5 witness: a call that had generated its key failed in a write step and
\* left neither file behind
C5_Witness ==
    /\ pc[1] = "done" /\ result[1] = "WriteError"
    /\ NoTargets(fs0[1]) /\ genkey[1] # NoKey
    /\ NoTargets(fs)

AllDone == \A p \in Procs : pc[p] = "done"

\* C10: under every interleaving of the invocations on the same (initially
\* absent) paths, none overwrites or deletes a file written by another, at
\* most one reports success, and once all have ended two existing files are
\* the halves of one key pair.
C10_ConcurrentSafe ==
    /\ ~clobbered
    /\ Cardinality({p \in Procs : pc[p] = "done" /\ result[p] = "ok"}) <= 1
    /\ (AllDone /\ Exists(fs.priv) /\ Exists(fs.pub)) => fs.priv.key = fs.pub.key

(***************************************************************************)
(* Path derivation: pathlib.PurePath.suffix / with_suffix (Python 3.11),   *)
(* as used by main() of generate-intoto-key.py and by update_layout_keys.  *)
(* A path is the sequence of its characters.                               *)
(***************************************************************************)
Alphabet == {"a", "b", ".", "/"}
DotPub == <<".", "p", "u", "b">>

RECURSIVE LastIndexOf(_, _, _)
\* largest i <= n with s[i] = c, or 0   (str.rfind, 1-based)
LastIndexOf(s, c, n) ==
    IF n = 0 THEN 0
    ELSE IF s[n] = c THEN n
    ELSE LastIndexOf(s, c, n - 1)

\* PurePath.name: the last component
PathName(s) == SubSeq(s, LastIndexOf(s, "/", Len(s)) + 1, Len(s))
\* everything before the last component, separator included
PathDir(s) == SubSeq(s, 1, LastIndexOf(s, "/", Len(s)))

\* PurePath.suffix: name[i:] for i = name.rfind('.') when 0 < i < len(name)-1
PathSuffix(s) ==
    LET name == PathName(s)
        j == LastIndexOf(name, ".", Len(name))
    IN IF 1 < j /\ j < Len(name) THEN SubSeq(name, j, Len(name)) ELSE <<>>

\* PurePath.with_suffix: the old suffix, if any, is replaced by the new one
WithSuffix(s, suffix) ==
    LET name == PathName(s)
        old == PathSuffix(s)
    IN PathDir(s) \o SubSeq(name, 1, Len(name) - Len(old)) \o suffix

\* base names that pathlib keeps as typed and splits the same way in every
\* Python 3 release: no trailing separator, no empty component, and no
\* component that starts or ends with a dot
IsNormal(s) ==
    /\ Len(s) > 0
    /\ s[Len(s)] \notin {"/", "."}
    /\ \A i \in 1..(Len(s) - 1) : ~(s[i] = "/" /\ s[i + 1] \in {"/", "."})
    /\ \A i \in 1..(Len(s) - 1) : ~(s[i] = "." /\ s[i + 1] = "/")
    /\ s[1] # "."

BaseNames ==
    {s \in UNION {[1..n -> Alphabet] : n \in 1..MaxLen} : IsNormal(s)}

InitPath ==
    /\ base \in BaseNames
    /\ private_key_path = <<>>
    /\ public_key_path = <<>>
    /\ derived = <<>>
    /\ ppc = "start"
    /\ GenIdle
    /\ LayoutIdle

\* generate-intoto-key.py main(), lines 110-115
GenerateMain ==
    /\ ppc = "start"
    /\ private_key_path' = base
    /\ public_key_path' = WithSuffix(base, DotPub)
    /\ ppc' = "generated"
    /\ UNCHANGED <<base, derived, genVars, layoutVars>>

\* update_layout_keys(layout, public_key_path), line 34
DerivePrivatePath ==
    /\ ppc = "generated"
    /\ derived' = WithSuffix(public_key_path, <<>>)
    /\ ppc' = "bound"
    /\ UNCHANGED <<base, private_key_path, public_key_path, genVars, layoutVars>>

NextPath == GenerateMain \/ DerivePrivatePath

SpecPath == InitPath /\ [][NextPath]_vars

\* C9: for every base name B the private key goes to B, the public key to
\* B followed by ".pub", and update_layout_keys derives B again from it.
C9_PathsFromBase ==
    /\ (ppc \in {"generated", "bound"} =>
           /\ private_key_path = base
           /\ public_key_path = base \o DotPub)
    /\ (ppc = "bound" => derived = base)

(***************************************************************************)
(* Layout file: update-layout-keys.py and sign-layout.py                   *)
(*                                                                         *)
(* A JSON object is a function from its member names to their values, so   *)
(* `name in d` is name \in DOMAIN d.  Key pair k has private key k; its    *)
(* public key, keyid and descriptor are what CryptoSigner(k).public_key    *)
(* gives.  A signature records who signed which bytes.                     *)
(*                                                                         *)
(* The scenario keeps the layout file present, valid JSON and writable:    *)
(* the exits of the two scripts on FileNotFoundError, JSONDecodeError and  *)
(* on a failed write leave no operation to talk about.  The in-toto and    *)
(* securesystemslib calls are modelled by their documented results.        *)
(***************************************************************************)
Keys == 1..NumKeys
DefaultExpires == "2030-12-31T23:59:59Z"
Scheme == "rsassa-pss-sha256"

Has(d, name) == name \in DOMAIN d
\* dict.get(name, default)
Get(d, name, default) == IF name \in DOMAIN d THEN d[name] ELSE default
\* d[name] = value
Put(d, name, value) ==
    [x \in DOMAIN d \cup {name} |-> IF x = name THEN value ELSE d[x]]
Restrict(d, S) == [x \in S |-> d[x]]
EmptyDict == <<>>

\* private_key.public_key(), PEM encoded
PublicKey(k) == [pem |-> k]
\* SSlibKey.keyid: digest of the public key
KeyIdOf(pub) == 1000 + pub.pem
\* update-layout-keys.py lines 46-53: {'keyid': keyid, **public_key.to_dict()}
Descriptor(pub) ==
    [keyid |-> KeyIdOf(pub), keytype |-> "rsa", scheme |-> Scheme,
     keyval |-> [public |-> pub]]

\* CanonicalEncoder: key order and whitespace do not exist in a function
Canonical(payload) == payload
\* signer.sign(bytes).to_dict()
SignatureOf(k, bytes) ==
    [keyid |-> KeyIdOf(PublicKey(k)), sig |-> [by |-> k, over |-> bytes]]

\* Step(**step_dict): the recognised members, with the constructor's defaults
StepObject(d) ==
    [_type |-> "step",
     name |-> Get(d, "name", "None"),
     expected_materials |-> Get(d, "expected_materials", <<>>),
     expected_products |-> Get(d, "expected_products", <<>>),
     pubkeys |-> Get(d, "pubkeys", <<>>),
     expected_command |-> Get(d, "expected_command", <<>>),
     threshold |-> Get(d, "threshold", 1)]

\* Inspection(**inspect_dict)
InspectionObject(d) ==
    [_type |-> "inspection",
     name |-> Get(d, "name", "None"),
     expected_materials |-> Get(d, "expected_materials", <<>>),
     expected_products |-> Get(d, "expected_products", <<>>),
     run |-> Get(d, "run", <<>>)]

StepObjects(list) == [i \in 1..Len(list) |-> StepObject(list[i])]
InspectionObjects(list) == [i \in 1..Len(list) |-> InspectionObject(list[i])]

\* sign-layout.py lines 73-98: the Layout built from an unsigned layout dict
LayoutFromDict(d) ==
    [_type |-> Get(d, "_type", "layout"),
     steps |-> StepObjects(Get(d, "steps", <<>>)),
     inspect |-> InspectionObjects(Get(d, "inspect", <<>>)),
     keys |-> Get(d, "keys", EmptyDict),
     expires |-> Get(d, "expires", DefaultExpires),
     readme |-> ""]

\* Layout.read(signed) inside Metablock.read: the recognised members
LayoutRead(d) ==
    [_type |-> "layout",
     steps |-> StepObjects(Get(d, "steps", <<>>)),
     inspect |-> InspectionObjects(Get(d, "inspect", <<>>)),
     keys |-> Get(d, "keys", EmptyDict),
     expires |-> Get(d, "expires", "one month from now"),
     readme |-> Get(d, "readme", "")]

\* sign-layout.py line 69
IsMetablock(d) == Has(d, "signed") /\ Has(d, "signatures")

\* lines 67-100: the Metablock sign_layout starts from
MetablockOf(d) ==
    IF IsMetablock(d)
    THEN [signatures |-> d.signatures, signed |-> LayoutRead(d.signed)]
    ELSE [signatures |-> <<>>, signed |-> LayoutFromDict(d)]

\* lines 117-128: create_signature(signer) and dump
SignedWith(mb, k) ==
    [signatures |-> Append(mb.signatures, SignatureOf(k, Canonical(mb.signed))),
     signed |-> mb.signed]

SetStepPubkeys(list, keyid) ==
    [i \in 1..Len(list) |-> Put(list[i], "pubkeys", <<keyid>>)]

\* update-layout-keys.py lines 74-78, with the key of CryptoSigner(k)
BoundLayout(d, k) ==
    LET keyid == KeyIdOf(PublicKey(k))
        withKeys == Put(d, "keys", (keyid :> Descriptor(PublicKey(k))))
    IN IF Has(d, "steps")
       THEN Put(withKeys, "steps", SetStepPubkeys(d.steps, keyid))
       ELSE withKeys

\* ---- the layout files the scenario starts from ----
Step1 == [name |-> "build", expected_command |-> <<"make">>]
Step2 == [name |-> "test", pubkeys |-> <<>>, threshold |-> 1]
StepLists == {<<>>, <<Step1>>, <<Step1, Step2>>}
Registries == {[id \in {KeyIdOf(PublicKey(k)) : k \in S} |->
                   Descriptor(PublicKey(id - 1000))] : S \in SUBSET Keys}

FullLayout(steps, keys) ==
    [_type |-> "layout", expires |-> "2027-01-01T00:00:00Z", steps |-> steps,
     inspect |-> <<>>, keys |-> keys, x_note |-> "kept by the owner"]

\* unsigned flat layouts: steps and inspect, and any of the other members
UnsignedLayouts ==
    {Restrict(FullLayout(st, ks), {"steps", "inspect"} \cup opt) :
        st \in StepLists, ks \in Registries,
        opt \in SUBSET {"_type", "expires", "keys", "x_note"}}

\* flat layouts that carry a top-level signatures list (one entry, by the
\* last key)
FlatSignedLayouts ==
    {Put(d, "signatures", <<SignatureOf(NumKeys, Canonical(LayoutFromDict(d)))>>) :
        d \in UnsignedLayouts}

\* signed metablocks, as sign_layout writes them (signed by key 1)
Metablocks == {SignedWith(MetablockOf(d), 1) : d \in UnsignedLayouts}

InitialLayouts == UnsignedLayouts \cup FlatSignedLayouts \cup Metablocks

\* slot s holds the public key file of key s; the file that with_suffix('')
\* names next to it holds the same private key, another one, or is absent.
\* Slot 1 is a key pair as generate-intoto-key.py leaves it.
KeyFileConfigs ==
    {f \in [Keys -> [pub : Keys, priv : Keys \cup {0}]] :
        /\ \A s \in Keys : f[s].pub = s
        /\ f[1].priv = 1}

Init ==
    /\ layout \in InitialLayouts
    /\ keyfiles \in KeyFileConfigs
    /\ prev = layout
    /\ hist = <<>>
    /\ GenIdle
    /\ PathIdle

Ran(op, slot, ok) == Append(hist, [op |-> op, slot |-> slot, ok |-> ok])

\* update_layout_keys(layout_path, public_key_path of slot s), lines 32-61:
\* the private key next to the public key file cannot be loaded
UpdateLayoutKeysNoKey(s) ==
    /\ Len(hist) < MaxOps
    /\ keyfiles[s].priv = 0
    /\ hist' = Ran("bind", s, FALSE)
    /\ prev' = layout
    /\ UNCHANGED <<layout, keyfiles, genVars, pathVars>>

\* update_layout_keys, lines 32-88: keyid and descriptor come from the
\* private key file; the layout file is rewritten in place
UpdateLayoutKeys(s) ==
    /\ Len(hist) < MaxOps
    /\ keyfiles[s].priv # 0
    /\ layout' = BoundLayout(layout, keyfiles[s].priv)
    /\ hist' = Ran("bind", s, TRUE)
    /\ prev' = layout
    /\ UNCHANGED <<keyfiles, genVars, pathVars>>

\* sign_layout, line 71 raising (an in-toto whose Metablock has no `read`,
\* or a signed part Layout.read rejects): lines 101-105, exit 1
SignLayoutReadFails(s) ==
    /\ Len(hist) < MaxOps
    /\ IsMetablock(layout)
    /\ hist' = Ran("sign", s, FALSE)
    /\ prev' = layout
    /\ UNCHANGED <<layout, keyfiles, genVars, pathVars>>

\* sign_layout, lines 107-115: the private key file cannot be loaded
SignLayoutNoKey(s) ==
    /\ Len(hist) < MaxOps
    /\ keyfiles[s].priv = 0
    /\ hist' = Ran("sign", s, FALSE)
    /\ prev' = layout
    /\ UNCHANGED <<layout, keyfiles, genVars, pathVars>>

\* sign_layout(layout_path, private key of slot s), output in place
SignLayout(s) ==
    /\ Len(hist) < MaxOps
    /\ keyfiles[s].priv # 0
    /\ layout' = SignedWith(MetablockOf(layout), keyfiles[s].priv)
    /\ hist' = Ran("sign", s, TRUE)
    /\ prev' = layout
    /\ UNCHANGED <<keyfiles, genVars, pathVars>>

Next ==
    \E s \in Keys :
        \/ UpdateLayoutKeysNoKey(s)
        \/ UpdateLayoutKeys(s)
        \/ SignLayoutReadFails(s)
        \/ SignLayoutNoKey(s)
        \/ SignLayout(s)

Spec == Init /\ [][Next]_vars

(***************************************************************************)
(* Claims about update_layout_keys and sign_layout                         *)
(***************************************************************************)
Last == hist[Len(hist)]
Before == hist[Len(hist) - 1]

\* the signature list of a layout file, flat or metablock
Signatures(d) == Get(d, "signatures", <<>>)

IsPrefix(a, b) == Len(a) <= Len(b) /\ SubSeq(b, 1, Len(a)) = a

\* the slot holds a key pair: the private key file belongs to the public one
IsKeyPair(s) == keyfiles[s].priv = keyfiles[s].pub

\* verify(document): the keyids whose signature checks against the descriptor
\* registered under that keyid in the signed payload, over the canonical
\* encoding of the payload as it is now
VerifySignature(desc, sig, bytes) ==
    /\ desc.scheme = Scheme
    /\ desc.keyval.public = PublicKey(sig.by)
    /\ sig.over = bytes

ValidKeyIds(d) ==
    IF ~Has(d, "signed") THEN {}
    ELSE LET reg == Get(d.signed, "keys", EmptyDict)
             sigs == Signatures(d)
         IN {sigs[i].keyid : i \in
                {j \in 1..Len(sigs) :
                    /\ sigs[j].keyid \in DOMAIN reg
                    /\ VerifySignature(reg[sigs[j].keyid], sigs[j].sig,
                                       Canonical(d.signed))}}

\* C1: no successful bindKey or sign removes or replaces a signature entry
\* of the layout file (flat, flat with signatures, or metablock), and a
\* successful sign leaves the old list as a prefix, one entry longer.
C1_AppendOnly ==
    (hist # <<>> /\ Last.ok) =>
        /\ IsPrefix(Signatures(prev), Signatures(layout))
        /\ (Last.op = "sign" =>
               Len(Signatures(layout)) = Len(Signatures(prev)) + 1)
        /\ (Last.op = "bind" => Signatures(layout) = Signatures(prev))

\* C2: binding key pair K and then signing with K yields a document whose
\* newest signature carries the keyid bindKey registered for K in the signed
\* payload's keys, and verify reports that keyid valid.
C2_BindSignVerifies ==
    (/\ Len(hist) >= 2
     /\ Before.op = "bind" /\ Before.ok
     /\ Last.op = "sign" /\ Last.slot = Before.slot
     /\ IsKeyPair(Last.slot))
        => LET K == keyfiles[Last.slot].pub
               kid == KeyIdOf(PublicKey(K))
           IN /\ Last.ok
              /\ Signatures(layout)[Len(Signatures(layout))].keyid = kid
              /\ Has(layout.signed, "keys")
              /\ kid \in DOMAIN layout.signed.keys
              /\ layout.signed.keys[kid] = Descriptor(PublicKey(K))
              /\ kid \in ValidKeyIds(layout)

\* what C3 asks of the document after both operations were run with K
BoundAndSigned(d, K) ==
    LET kid == KeyIdOf(PublicKey(K))
    IN /\ IsMetablock(d)
       /\ Has(d.signed, "keys")
       /\ kid \in DOMAIN d.signed.keys
       /\ d.signed.keys[kid] = Descriptor(PublicKey(K))
       /\ \A i \in 1..Len(d.signed.steps) : d.signed.steps[i].pubkeys = <<kid>>
       /\ kid \in ValidKeyIds(d)

\* C3: bindKey then sign, and sign then bindKey, both succeed with key pair
\* K and leave K's descriptor in the signed payload's keys, every step's
\* pubkeys equal to [K.keyId], and K's signature valid.
C3_EitherOrder ==
    (/\ Len(hist) >= 2
     /\ Before.ok
     /\ {Before.op, Last.op} = {"bind", "sign"}
     /\ Last.slot = Before.slot
     /\ IsKeyPair(Last.slot))
        => /\ Last.ok
           /\ BoundAndSigned(layout, keyfiles[Last.slot].pub)

\* C6: a successful bindKey of key pair K leaves K's descriptor under K's
\* keyid and every other entry of `keys` present and unchanged.
C6_BindKeepsOtherKeys ==
    (hist # <<>> /\ Last.op = "bind" /\ Last.ok /\ IsKeyPair(Last.slot)) =>
        LET kid == KeyIdOf(PublicKey(keyfiles[Last.slot].pub))
            old == Get(prev, "keys", EmptyDict)
        IN /\ Has(layout, "keys")
           /\ kid \in DOMAIN layout.keys
           /\ layout.keys[kid] = Descriptor(PublicKey(keyfiles[Last.slot].pub))
           /\ \A id \in DOMAIN old \ {kid} :
                 id \in DOMAIN layout.keys /\ layout.keys[id] = old[id]

\* C7: signing an unsigned layout writes a signed payload with exactly the
\* top-level members of the input, each with the value it had.
C7_SignRoundTrips ==
    (/\ hist # <<>> /\ Last.op = "sign" /\ Last.ok
     /\ ~Has(prev, "signed") /\ ~Has(prev, "signatures"))
        => /\ DOMAIN layout.signed = DOMAIN prev
           /\ \A name \in DOMAIN prev \cap DOMAIN layout.signed :
                 layout.signed[name] = prev[name]

\* C8: bindKey succeeds whenever the public key file is there, and what it
\* writes is determined by the layout and the public key file alone: it is
\* what binding the key of that file gives, whatever the private key file
\* next to it holds.
C8_BindPublicOnly ==
    (hist # <<>> /\ Last.op = "bind") =>
        /\ Last.ok
        /\ layout = BoundLayout(prev, keyfiles[Last.slot].pub)

====
